---- MODULE Spec2Model ----
(***************************************************************************)
(* A model of build_rss.py: the aggregation pipeline that fetches          *)
(* candidate items, filters them by keyword and recency, dedupes and ranks *)
(* them, enriches each survivor and renders the feed, the index and the    *)
(* per-item pages under public/.                                           *)
(*                                                                         *)
(* Text is modelled as a sequence of one-character strings, so that        *)
(* strip(), lower(), the slug regular expression, slicing and substring    *)
(* search are computed as Python computes them.  Instants are integers:    *)
(* every reading of the clock returns a later instant than the one before, *)
(* and a day of DAYS_LOOKBACK is TicksPerDay instants long.                *)
(***************************************************************************)
EXTENDS Integers, Sequences, FiniteSets, TLC

VARIABLES
    MODE, KEYWORDS, EXCLUDE, MAX_ITEMS, DAYS_LOOKBACK,
    SITE_BASE, ARTICLE_PAGE_BASE, GOOGLE_SHEET_CSV_URL,
    now,          \* datetime.now(timezone.utc)
    pc,           \* position of the running process
    cutoff,       \* fetch_rss: local cutoff
    candidates,   \* fetch_rss / fetch_google_sheet: local items, before dedupe
    items,        \* main: items
    fetched,      \* the list as the fetcher returned it (history)
    failed,       \* indices of items whose enrichment request failed (history)
    started,      \* the instant at which the current run started (history)
    i,            \* main: position of the enrichment loop
    posts,        \* files under public/posts, by slug
    thumbs,       \* files under public/thumbs, by slug
    index,        \* public/index.html
    feed,         \* public/feed.xml
    runs,         \* number of runs started so far
    served,       \* number of records the sources have served so far
    arg, ret1, ret2   \* argument and results of a function applied on its own

vars == << MODE, KEYWORDS, EXCLUDE, MAX_ITEMS, DAYS_LOOKBACK, SITE_BASE,
           ARTICLE_PAGE_BASE, GOOGLE_SHEET_CSV_URL, now, pc, cutoff, candidates,
           items, fetched, failed, started, i, posts, thumbs, index, feed, runs,
           served, arg, ret1, ret2 >>

settings == << MODE, KEYWORDS, EXCLUDE, MAX_ITEMS, DAYS_LOOKBACK, SITE_BASE,
               ARTICLE_PAGE_BASE, GOOGLE_SHEET_CSV_URL >>

disk == << posts, thumbs, index, feed >>

fnvars == << arg, ret1, ret2 >>

----------------------------------------------------------------------------
(* Bounds of the model *)

MaxTail == 3        \* free characters after the run of letters of a slugify input
MaxCand == 3        \* candidates handed to dedupe_and_sort on its own
MaxStamp == 2       \* distinct publish instants of those candidates
MaxEntries == 2     \* records the sources serve while the program is observed
MaxRuns == 2        \* runs of the program over the same public/ directory
TicksPerDay == 2    \* clock readings that make up one day

(* Program constants *)

SlugCap == 80
DefaultMaxItems == 30
DefaultDaysLookback == 14
EnrichSkipLen == 500
EnrichCap == 1200
ParaLimit == 6
MinParaLen == 60
ParaBudget == 900

----------------------------------------------------------------------------
(* Text helpers *)

Min(a, b) == IF a <= b THEN a ELSE b
Max(a, b) == IF a >= b THEN a ELSE b

Rep(c, n) == [k \in 1..n |-> c]

SeqsUpTo(S, n) == UNION {[1..k -> S] : k \in 0..n}

Whitespace == {" ", "\n"}

LowerAlnum == {"a", "b", "g", "h", "m", "o", "p", "s", "t", "u", "v", "x", "0", "1"}

\* str.lower() on one character
LowerChar(c) ==
    CASE c = "A" -> "a"
      [] c = "B" -> "b"
      [] c = "M" -> "m"
      [] c = "U" -> "u"
      [] c = "X" -> "x"
      [] OTHER -> c

lower(s) == [k \in 1..Len(s) |-> LowerChar(s[k])]

RECURSIVE LStrip(_, _)
LStrip(s, cs) ==
    IF s # <<>> /\ Head(s) \in cs THEN LStrip(Tail(s), cs) ELSE s

RECURSIVE RStrip(_, _)
RStrip(s, cs) ==
    IF s # <<>> /\ s[Len(s)] \in cs THEN RStrip(SubSeq(s, 1, Len(s) - 1), cs) ELSE s

\* str.strip(): both ends, whitespace
strip(s) == RStrip(LStrip(s, Whitespace), Whitespace)

\* str.strip("-")
StripHyphen(s) == RStrip(LStrip(s, {"-"}), {"-"})

\* s[:n] with n >= 0
Prefix(s, n) == SubSeq(s, 1, Min(n, Len(s)))

\* s[:n] for any integer n: a negative n counts from the end
PySlice(s, n) ==
    IF n >= 0 THEN Prefix(s, n) ELSE SubSeq(s, 1, Max(0, Len(s) + n))

\* k in t
Contains(t, k) ==
    \E p \in 1..(Len(t) - Len(k) + 1) : SubSeq(t, p, p + Len(k) - 1) = k

\* _SLUG_RE.sub("-", s): every maximal run of characters outside a-z0-9
\* becomes one hyphen
SlugSub(s) ==
    LET marked == [k \in 1..Len(s) |->
                     IF s[k] \in LowerAlnum THEN s[k]
                     ELSE IF k = 1 \/ s[k - 1] \in LowerAlnum THEN "-"
                     ELSE ""]
    IN  SelectSeq(marked, LAMBDA c : c # "")

Post == <<"p", "o", "s", "t">>

slugify(s) ==
    LET a == lower(strip(s))
        b == StripHyphen(SlugSub(a))
        c == Prefix(b, SlugCap)
    IN  IF c = <<>> THEN Post ELSE c

matches(text) ==
    LET t == lower(text)
    IN  IF KEYWORDS # <<>> /\ ~(\E k \in 1..Len(KEYWORDS) : Contains(t, KEYWORDS[k]))
        THEN FALSE
        ELSE IF EXCLUDE # <<>> /\ (\E k \in 1..Len(EXCLUDE) : Contains(t, EXCLUDE[k]))
        THEN FALSE
        ELSE TRUE

----------------------------------------------------------------------------
(* dedupe_and_sort *)

\* it.get("guid") or it.get("link")
DedupeKey(it) == IF it.guid # <<>> THEN it.guid ELSE it.link

\* sorted(items, key=pubDate, reverse=True): stable, so items of equal
\* pubDate keep the order they came in
RECURSIVE InsertDesc(_, _)
InsertDesc(it, sorted) ==
    IF sorted = <<>> THEN <<it>>
    ELSE IF Head(sorted).pubDate >= it.pubDate
         THEN <<Head(sorted)>> \o InsertDesc(it, Tail(sorted))
         ELSE <<it>> \o sorted

\* oldest first
RECURSIVE SortedAsc(_)
SortedAsc(its) ==
    IF its = <<>> THEN <<>>
    ELSE LET rest == SortedAsc(Tail(its))
             older == SelectSeq(rest, LAMBDA x : x.pubDate < Head(its).pubDate)
             newer == SelectSeq(rest, LAMBDA x : x.pubDate >= Head(its).pubDate)
         IN  older \o <<Head(its)>> \o newer

RECURSIVE SortedDesc(_)
SortedDesc(its) ==
    IF its = <<>> THEN <<>>
    ELSE InsertDesc(its[Len(its)], SortedDesc(SubSeq(its, 1, Len(its) - 1)))

RECURSIVE KeepFirst(_, _)
KeepFirst(its, seen) ==
    IF its = <<>> THEN <<>>
    ELSE IF DedupeKey(Head(its)) \in seen THEN KeepFirst(Tail(its), seen)
    ELSE <<Head(its)>> \o KeepFirst(Tail(its), seen \cup {DedupeKey(Head(its))})

\* the walk without the seen set
dedupe_and_sort_NoSeen(its) == PySlice(SortedDesc(its), MAX_ITEMS)

\* the sort without reverse=True
dedupe_and_sort_Ascending(its) == PySlice(KeepFirst(SortedAsc(its), {}), MAX_ITEMS)

dedupe_and_sort(its) == PySlice(KeepFirst(SortedDesc(its), {}), MAX_ITEMS)

----------------------------------------------------------------------------
(* Settings: the module-level globals read from settings.json *)

U1 == <<"u">>
G1 == <<"g">>
U2 == <<"v">>
ImgUrl == <<"i">>

Epoch == 40      \* the first reading of the clock

\* SETTINGS.get(key, default)
Get(doc, key, default) == IF key \in DOMAIN doc THEN doc[key] ELSE default

SettingsDocs ==
    { [keywords |-> << <<"M", "u">> >>, exclude_keywords |-> << <<"X">> >>,
       max_items |-> 2, days_lookback |-> 14,
       site_base |-> <<"s", "/">>, article_page_base |-> <<"a">>],
      [mode |-> "rss_aggregate", max_items |-> 1, site_base |-> <<"s">>],
      [mode |-> "google_sheet", google_sheet_csv_url |-> <<"b">>,
       keywords |-> << <<"M", "u">> >>, exclude_keywords |-> << <<"X">> >>,
       max_items |-> 1, site_base |-> <<"s">>],
      [mode |-> "google_sheet", title |-> <<"t">>],
      [mode |-> "google_sheet", google_sheet_csv_url |-> <<"b">>,
       article_page_base |-> <<"a", "/">>] }

LoadSettings(doc) ==
    /\ MODE = Get(doc, "mode", "rss_aggregate")
    /\ KEYWORDS = [k \in 1..Len(Get(doc, "keywords", <<>>)) |-> lower(doc.keywords[k])]
    /\ EXCLUDE = [k \in 1..Len(Get(doc, "exclude_keywords", <<>>)) |->
                      lower(doc.exclude_keywords[k])]
    /\ MAX_ITEMS = Get(doc, "max_items", DefaultMaxItems)
    /\ DAYS_LOOKBACK = Get(doc, "days_lookback", DefaultDaysLookback)
    /\ SITE_BASE = RStrip(Get(doc, "site_base", <<>>), {"/"})
    /\ ARTICLE_PAGE_BASE = RStrip(Get(doc, "article_page_base", <<>>), {"/"})
    /\ GOOGLE_SHEET_CSV_URL = Get(doc, "google_sheet_csv_url", <<>>)

NoFile == [lastBuildDate |-> <<>>, items |-> <<>>]

IdleDisk ==
    /\ posts = [sl \in {} |-> sl]
    /\ thumbs = {}
    /\ index = <<>>
    /\ feed = NoFile

IdleRun ==
    /\ cutoff = 0
    /\ candidates = <<>>
    /\ items = <<>>
    /\ fetched = <<>>
    /\ failed = {}
    /\ i = 0

IdleFn ==
    /\ arg = <<>>
    /\ ret1 = <<>>
    /\ ret2 = <<>>

----------------------------------------------------------------------------
(* Dates *)

\* to_rfc822(dt): the instant, as text
to_rfc822(dt) == <<"rfc822", dt>>

NoDate == [kind |-> "none"]
BadDate == [kind |-> "bad"]
Date(t) == [kind |-> "ok", t |-> t]

\* the instant exactly DAYS_LOOKBACK days before the first clock reading
EdgeStamp == Epoch - DefaultDaysLookback * TicksPerDay
OldStamp == EdgeStamp - 1

\* "dt = norm_pubdate(pub) if pub else datetime.now(timezone.utc)":
\* a parsable date is its instant, anything else is the clock reading
norm_pubdate(pub, clock) == IF pub.kind = "ok" THEN pub.t ELSE clock

ReadsClock(pub) == pub.kind # "ok"

----------------------------------------------------------------------------
(* fetch_rss, fetch_google_sheet *)

FeedEntries ==
    [title : {<<" ", "M", "u">>, <<>>},
     link : {<<>>, <<"u", " ">>},
     summary : {<<>>, <<"X">>},
     description : {<<"m", "u", " ">>},
     id : {<<>>, G1},
     published : {NoDate, BadDate, Date(OldStamp), Date(EdgeStamp)},
     updated : {NoDate, Date(EdgeStamp)},
     image : {<<>>, ImgUrl}]

SheetRows ==
    [title : {<<" ", "M", "u">>, <<>>},
     url : {<<>>, <<"u", " ">>},
     summary : {<<"m", "u", " ">>, <<"X">>, Rep("u", EnrichSkipLen)},
     pubDate : {NoDate, BadDate, Date(OldStamp), Date(EdgeStamp)},
     guid : {<<>>, <<" ">>, G1}]

Item(title, link, guid, dt, desc, image) ==
    [title |-> title, link |-> link, guid |-> guid, pubDate |-> dt, desc |-> desc,
     image |-> image, thumb |-> <<>>, slug |-> <<>>, summary_url |-> <<>>]

FilterText(title, desc) == title \o <<"\n">> \o desc

\* pub = getattr(e, "published", "") or getattr(e, "updated", "")
RssPub(e) == IF e.published.kind # "none" THEN e.published ELSE e.updated

\* one iteration of fetch_rss's loop over feed.entries
RssItem(e, clock) ==
    LET title == strip(e.title)
        link == strip(e.link)
        desc == IF strip(e.summary) # <<>> THEN strip(e.summary) ELSE strip(e.description)
        guid == IF e.id # <<>> THEN e.id ELSE link
    IN  Item(title, link, guid, norm_pubdate(RssPub(e), clock), desc, e.image)

\* one iteration of fetch_google_sheet's loop over the rows
SheetItem(row, clock) ==
    LET title == strip(row.title)
        link == strip(row.url)
        desc == strip(row.summary)
        guid == IF strip(row.guid) # <<>> THEN strip(row.guid) ELSE link
    IN  Item(title, link, guid, norm_pubdate(row.pubDate, clock), desc, <<>>)

----------------------------------------------------------------------------
(* enrich_summary, find_page_image, make_wide_thumb_cover *)

\* What the article page answers to one request: the request or the parse
\* fails, or the page is read
PageFail == [status |-> "fail"]

PageOg ==
    [status |-> "ok", og |-> <<" ", "x", "o", "o", "o">>, meta |-> <<"o">>, paras |-> <<>>]

PageMeta ==
    [status |-> "ok", og |-> <<>>, meta |-> <<>>, paras |-> << <<"o", "o", "o">> >>]

PageLong ==
    [status |-> "ok", og |-> <<>>, meta |-> <<"o", "o">>,
     paras |-> << Rep("o", MinParaLen), Rep("o", 650), Rep("o", 650), Rep("o", 650) >>]

Pages == {PageFail, PageOg, PageMeta, PageLong}

RECURSIVE SumLen(_)
SumLen(ps) == IF ps = <<>> THEN 0 ELSE Len(Head(ps)) + SumLen(Tail(ps))

\* the loop over container.find_all("p", limit=6)
RECURSIVE CollectParas(_, _)
CollectParas(ps, acc) ==
    IF ps = <<>> THEN acc
    ELSE LET acc2 == IF Len(Head(ps)) > MinParaLen THEN Append(acc, Head(ps)) ELSE acc
         IN  IF SumLen(acc2) > ParaBudget THEN acc2 ELSE CollectParas(Tail(ps), acc2)

\* " ".join(paras)
RECURSIVE Join(_)
Join(ps) ==
    IF ps = <<>> THEN <<>>
    ELSE IF Len(ps) = 1 THEN Head(ps)
    ELSE Head(ps) \o <<" ">> \o Join(Tail(ps))

\* max([a, b, c], key=len): the first of the longest
Longest(a, b, c) ==
    IF Len(a) >= Len(b) /\ Len(a) >= Len(c) THEN a
    ELSE IF Len(b) >= Len(c) THEN b
    ELSE c

\* the fallback that loses the description when the request fails
enrich_summary_DropsOnFailure(desc0, page) ==
    LET desc == strip(desc0)
    IN  IF Len(desc) >= EnrichSkipLen THEN desc
        ELSE IF page.status = "fail" THEN <<>>
        ELSE desc

enrich_summary(desc0, page) ==
    LET desc == strip(desc0)
    IN  IF Len(desc) >= EnrichSkipLen THEN desc
        ELSE IF page.status = "fail" THEN desc
        ELSE LET og == strip(page.og)
                 best == IF og # <<>> THEN og ELSE strip(page.meta)
                 paras == CollectParas(Prefix(page.paras, ParaLimit), <<>>)
                 cand0 == Longest(desc, best, Join(paras))
                 cand == IF Len(cand0) > EnrichCap
                         THEN Prefix(cand0, EnrichCap) \o <<"...">>
                         ELSE cand0
             IN  IF cand # <<>> THEN cand ELSE desc

\* whether enrich_summary sends its request at all
EnrichRequests(desc0) == Len(strip(desc0)) < EnrichSkipLen

\* the value make_wide_thumb_cover returns once the thumbnail is saved
ThumbUrl(slug) ==
    IF SITE_BASE # <<>> THEN SITE_BASE \o <<"/thumbs/">> \o slug \o <<".jpg">> ELSE <<>>

----------------------------------------------------------------------------
(* Rendering *)

\* xml.sax.saxutils.escape
RECURSIVE escape(_)
escape(s) ==
    IF s = <<>> THEN <<>>
    ELSE (CASE Head(s) = "&" -> <<"&", "a", "m", "p", ";">>
            [] Head(s) = "<" -> <<"&", "l", "t", ";">>
            [] Head(s) = ">" -> <<"&", "g", "t", ";">>
            [] OTHER -> <<Head(s)>>) \o escape(Tail(s))

SlugOf(it) == slugify(IF it.title # <<>> THEN it.title ELSE it.guid)

SummaryUrl(it, slug) ==
    IF ARTICLE_PAGE_BASE # <<>> THEN ARTICLE_PAGE_BASE \o <<"#slug=">> \o slug
    ELSE IF SITE_BASE # <<>> THEN SITE_BASE \o <<"/posts/">> \o slug \o <<".html">>
    ELSE it.link

\* the files posts/<slug>.html and posts/<slug>.json written for one item
PageOf(it, slug) ==
    [title |-> it.title, original_url |-> it.link, desc |-> it.desc,
     pubDate |-> to_rfc822(it.pubDate), slug |-> slug, image |-> it.image,
     thumb |-> it.thumb]

\* write_summary_pages, on the items: each gets its slug and summary_url
WithSlugs(its) ==
    [k \in 1..Len(its) |->
        [its[k] EXCEPT !.slug = SlugOf(its[k]),
                       !.summary_url = SummaryUrl(its[k], SlugOf(its[k]))]]

\* write_summary_pages, on the disk: files are written in list order, so of
\* two items with one slug the later one's page stays
RECURSIVE WritePages(_, _)
WritePages(its, files) ==
    IF its = <<>> THEN files
    ELSE LET it == Head(its)
             slug == SlugOf(it)
         IN  WritePages(Tail(its),
                [sl \in DOMAIN files \cup {slug} |->
                    IF sl = slug THEN PageOf(it, slug) ELSE files[sl]])

LinkFor(it) == IF it.summary_url # <<>> THEN it.summary_url ELSE it.link

IndexOf(its) ==
    [k \in 1..Len(its) |-> [href |-> escape(LinkFor(its[k])), text |-> escape(its[k].title)]]

ReadOriginal(link) ==
    <<"<br/><br/>\n<a href=\"">> \o escape(link)
        \o <<"\" rel=\"noopener nofollow\">Read original</a>">>

RssItemOf(it) ==
    [title |-> escape(it.title),
     link |-> escape(LinkFor(it)),
     guid |-> escape(LinkFor(it)),
     pubDate |-> to_rfc822(it.pubDate),
     thumbnail |-> escape(it.thumb),
     enclosure |-> IF it.thumb # <<>> THEN escape(it.thumb) ELSE escape(it.image),
     description |-> it.desc \o ReadOriginal(it.link)]

build_rss(its, clock) ==
    [lastBuildDate |-> to_rfc822(clock), items |-> [k \in 1..Len(its) |-> RssItemOf(its[k])]]

----------------------------------------------------------------------------
(* One run of main(), and the next run over the same public/ directory *)

Init ==
    /\ \E doc \in SettingsDocs : LoadSettings(doc)
    /\ IdleDisk
    /\ IdleRun
    /\ IdleFn
    /\ now = Epoch
    /\ started = Epoch
    /\ runs = 1
    /\ served = 0
    /\ pc = "start"

\* fetch_rss up to its loop: the cutoff is taken from the clock
FetchRssBegin ==
    /\ pc = "start"
    /\ MODE # "google_sheet"
    /\ started' = now
    /\ cutoff' = now - DAYS_LOOKBACK * TicksPerDay
    /\ now' = now + 1
    /\ candidates' = <<>>
    /\ pc' = "fetch_rss"
    /\ UNCHANGED << settings, disk, fnvars, items, fetched, failed, i, runs, served >>

\* one entry of one source
FetchRssEntry ==
    /\ pc = "fetch_rss"
    /\ served < MaxEntries
    /\ \E e \in FeedEntries :
        LET it == RssItem(e, now)
        IN  /\ now' = IF ReadsClock(RssPub(e)) THEN now + 1 ELSE now
            /\ candidates' =
                  IF it.pubDate < cutoff THEN candidates
                  ELSE IF ~matches(FilterText(it.title, it.desc)) THEN candidates
                  ELSE Append(candidates, it)
    /\ served' = served + 1
    /\ UNCHANGED << settings, disk, fnvars, pc, cutoff, items, fetched, failed,
                    started, i, runs >>

\* fetch_google_sheet up to its loop: no URL, no items; a failed request
\* ends the run
FetchSheetBegin ==
    /\ pc = "start"
    /\ MODE = "google_sheet"
    /\ started' = now
    /\ candidates' = <<>>
    /\ IF GOOGLE_SHEET_CSV_URL = <<>>
       THEN /\ items' = <<>>
            /\ fetched' = <<>>
            /\ i' = 1
            /\ pc' = "enrich"
       ELSE /\ UNCHANGED << items, fetched, i >>
            /\ pc' \in {"fetch_sheet", "aborted"}
    /\ UNCHANGED << settings, disk, fnvars, now, cutoff, failed, runs, served >>

\* one row of the sheet
FetchSheetRow ==
    /\ pc = "fetch_sheet"
    /\ served < MaxEntries
    /\ \E row \in SheetRows :
        LET it == SheetItem(row, now)
        IN  IF it.title = <<>> \/ it.link = <<>>
            THEN UNCHANGED << now, candidates >>
            ELSE /\ now' = IF ReadsClock(row.pubDate) THEN now + 1 ELSE now
                 /\ candidates' =
                       IF ~matches(FilterText(it.title, it.desc)) THEN candidates
                       ELSE Append(candidates, it)
    /\ served' = served + 1
    /\ UNCHANGED << settings, disk, fnvars, pc, cutoff, items, fetched, failed,
                    started, i, runs >>

\* "return dedupe_and_sort(items)", in either fetcher
FetchReturn ==
    /\ pc \in {"fetch_rss", "fetch_sheet"}
    /\ items' = dedupe_and_sort(candidates)
    /\ fetched' = items'
    /\ i' = 1
    /\ pc' = "enrich"
    /\ UNCHANGED << settings, disk, fnvars, now, cutoff, candidates, failed,
                    started, runs, served >>

\* one iteration of main's loop over the items
EnrichItem ==
    /\ pc = "enrich"
    /\ i <= Len(items)
    /\ \E page \in Pages, found \in {<<>>, ImgUrl}, saved \in BOOLEAN :
        LET it == items[i]
            desc == enrich_summary(it.desc, page)
            image == IF it.image # <<>> THEN it.image ELSE found
            slug == SlugOf(it)
            thumb == IF image # <<>> /\ saved THEN ThumbUrl(slug) ELSE <<>>
        IN  /\ items' = [items EXCEPT ![i] =
                            [it EXCEPT !.desc = desc, !.image = image, !.thumb = thumb]]
            /\ failed' = IF EnrichRequests(it.desc) /\ page.status = "fail"
                         THEN failed \cup {i} ELSE failed
            /\ thumbs' = IF image # <<>> /\ saved THEN thumbs \cup {slug} ELSE thumbs
    /\ i' = i + 1
    /\ UNCHANGED << settings, fnvars, posts, index, feed, now, pc, cutoff, candidates,
                    fetched, started, runs, served >>

write_summary_pages ==
    /\ pc = "enrich"
    /\ i > Len(items)
    /\ posts' = WritePages(items, posts)
    /\ items' = WithSlugs(items)
    /\ pc' = "index"
    /\ UNCHANGED << settings, fnvars, thumbs, index, feed, now, cutoff, candidates,
                    fetched, failed, started, i, runs, served >>

write_index ==
    /\ pc = "index"
    /\ index' = IndexOf(items)
    /\ pc' = "feed"
    /\ UNCHANGED << settings, fnvars, posts, thumbs, feed, now, cutoff, candidates,
                    items, fetched, failed, started, i, runs, served >>

\* build_rss and the write of feed.xml
WriteFeed ==
    /\ pc = "feed"
    /\ feed' = build_rss(items, now)
    /\ now' = now + 1
    /\ pc' = "done"
    /\ UNCHANGED << settings, fnvars, posts, thumbs, index, cutoff, candidates,
                    items, fetched, failed, started, i, runs, served >>

\* the program is run again: a new process, the same settings and directory
NewRun ==
    /\ pc \in {"done", "aborted"}
    /\ runs < MaxRuns
    /\ runs' = runs + 1
    /\ now' = now + 1
    /\ started' = now + 1
    /\ cutoff' = 0
    /\ candidates' = <<>>
    /\ items' = <<>>
    /\ fetched' = <<>>
    /\ failed' = {}
    /\ i' = 0
    /\ pc' = "start"
    /\ UNCHANGED << settings, disk, fnvars, served >>

Next ==
    \/ FetchRssBegin
    \/ FetchRssEntry
    \/ FetchSheetBegin
    \/ FetchSheetRow
    \/ FetchReturn
    \/ EnrichItem
    \/ write_summary_pages
    \/ write_index
    \/ WriteFeed
    \/ NewRun

Spec == Init /\ [][Next]_vars

----------------------------------------------------------------------------
(* slugify applied on its own, twice over *)

SlugAlphabet == {"a", "B", "-", " ", "!"}

SlugPrefixLens == {0, SlugCap - 2, SlugCap - 1, SlugCap}

SlugInputs ==
    {Rep("a", n) \o t : n \in SlugPrefixLens, t \in SeqsUpTo(SlugAlphabet, MaxTail)}

SlugInit ==
    /\ \E doc \in SettingsDocs : LoadSettings(doc)
    /\ IdleDisk
    /\ IdleRun
    /\ now = Epoch
    /\ started = Epoch
    /\ runs = 0
    /\ served = 0
    /\ pc = "slugify"
    /\ arg \in SlugInputs
    /\ ret1 = <<>>
    /\ ret2 = <<>>

SlugifyCall ==
    /\ pc = "slugify"
    /\ ret1' = slugify(arg)
    /\ pc' = "slugify_again"
    /\ UNCHANGED << settings, disk, now, cutoff, candidates, items, fetched,
                    failed, started, i, runs, served, arg, ret2 >>

SlugifyAgain ==
    /\ pc = "slugify_again"
    /\ ret2' = slugify(ret1)
    /\ pc' = "slugify_done"
    /\ UNCHANGED << settings, disk, now, cutoff, candidates, items, fetched,
                    failed, started, i, runs, served, arg, ret1 >>

SlugNext == SlugifyCall \/ SlugifyAgain

SpecSlug == SlugInit /\ [][SlugNext]_vars

----------------------------------------------------------------------------
(* dedupe_and_sort applied on its own *)

DedupeItems ==
    {Item(<<"o">>, link, guid, dt, <<>>, <<>>) :
        link \in {U1, U2}, guid \in {<<>>, U1, G1}, dt \in 1..MaxStamp}

MaxItemsChoices == (0 - MaxCand)..(MaxCand + 1)

DedupeInit ==
    /\ MODE = "rss_aggregate"
    /\ KEYWORDS = <<>>
    /\ EXCLUDE = <<>>
    /\ MAX_ITEMS \in MaxItemsChoices
    /\ DAYS_LOOKBACK = DefaultDaysLookback
    /\ SITE_BASE = <<>>
    /\ ARTICLE_PAGE_BASE = <<>>
    /\ GOOGLE_SHEET_CSV_URL = <<>>
    /\ IdleDisk
    /\ IdleFn
    /\ now = Epoch
    /\ started = Epoch
    /\ runs = 0
    /\ served = 0
    /\ pc = "dedupe"
    /\ cutoff = 0
    /\ candidates \in SeqsUpTo(DedupeItems, MaxCand)
    /\ items = <<>>
    /\ fetched = <<>>
    /\ failed = {}
    /\ i = 0

DedupeCall ==
    /\ pc = "dedupe"
    /\ items' = dedupe_and_sort(candidates)
    /\ pc' = "dedupe_done"
    /\ UNCHANGED << settings, disk, fnvars, now, cutoff, candidates, fetched,
                    failed, started, i, runs, served >>

DedupeNext == DedupeCall

SpecDedupe == DedupeInit /\ [][DedupeNext]_vars

----------------------------------------------------------------------------
(* Claims about dedupe_and_sort and slugify applied on their own *)

\* C1: no two items of the list returned by dedupe_and_sort have the same
\* dedupe key (the guid, or the link when the guid is empty), whatever the
\* candidates; both fetchers return through this one function.
C1_DistinctKeys ==
    pc = "dedupe_done" =>
        \A a, b \in 1..Len(items) :
            a # b =>
                (IF items[a].guid # <<>> THEN items[a].guid ELSE items[a].link)
                    # (IF items[b].guid # <<>> THEN items[b].guid ELSE items[b].link)

\* C1 witness: candidates that repeat a key were deduped into a list that
\* still holds two items.
C1_Witness ==
    /\ pc = "dedupe_done"
    /\ Len(items) >= 2
    /\ \E a, b \in 1..Len(candidates) :
           a # b /\ DedupeKey(candidates[a]) = DedupeKey(candidates[b])

\* C2: for every configured integer max_items the returned list has at most
\* max_items items, in non-increasing publish-timestamp order.
C2_CappedAndOrdered ==
    pc = "dedupe_done" =>
        /\ Len(items) <= MAX_ITEMS
        /\ \A a, b \in 1..Len(items) : a < b => items[a].pubDate >= items[b].pubDate

\* C6: slugify is idempotent, also on inputs that the 80-character cap
\* truncates: slugify(slugify(s)) = slugify(s).
C6_SlugifyIdempotent == pc = "slugify_done" => ret2 = ret1

----------------------------------------------------------------------------
(* Claims about the pipeline *)

Fetched == pc \in {"enrich", "index", "feed", "done"}

\* C3: of the candidates that share a guid, only the newest can be in the
\* final list: no item of the list is older than a candidate with its guid.
C3_NewestOfGuid ==
    Fetched =>
        \A k \in 1..Len(items) : \A c \in 1..Len(candidates) :
            candidates[c].guid = items[k].guid =>
                candidates[c].pubDate <= items[k].pubDate

\* C3 witness: a finished run whose candidates held one guid at two instants,
\* with an item of that guid in the final list.
C3_Witness ==
    /\ pc = "done"
    /\ \E a, b \in 1..Len(candidates) : \E k \in 1..Len(items) :
           /\ candidates[a].guid = candidates[b].guid
           /\ candidates[a].pubDate # candidates[b].pubDate
           /\ items[k].guid = candidates[a].guid

\* C4: in either mode every item of the final list is no older than
\* days_lookback days before the instant the run started.
C4_WithinLookback ==
    Fetched =>
        \A k \in 1..Len(items) :
            items[k].pubDate >= started - DAYS_LOOKBACK * TicksPerDay

\* C5: every item of the final rendered list passes the keyword filter on the
\* title and description it carries after enrichment.
C5_FinalItemsMatch ==
    pc = "done" =>
        \A k \in 1..Len(items) :
            LET t == lower(FilterText(items[k].title, items[k].desc))
            IN  /\ KEYWORDS # <<>> => \E w \in 1..Len(KEYWORDS) : Contains(t, KEYWORDS[w])
                /\ \A w \in 1..Len(EXCLUDE) : ~Contains(t, EXCLUDE[w])

\* C7: after each run the pages under public/posts are exactly those of the
\* current final list: no page of an earlier run's item is left.
C7_NoStalePages ==
    pc = "done" => DOMAIN posts = {items[k].slug : k \in 1..Len(items)}

\* C8: a failed enrichment request does not end the run (the run is at a
\* position whose next step is enabled, never aborted), and in the feed the
\* run writes the item keeps the description the fetcher gave it, verbatim.
C8_FailedEnrichKeepsDesc ==
    /\ failed # {} => pc \in {"enrich", "index", "feed", "done"}
    /\ (failed # {} /\ pc = "enrich") => i \in 1..(Len(items) + 1)
    /\ pc = "done" =>
           /\ Len(feed.items) = Len(fetched)
           /\ \A k \in failed :
                  feed.items[k].description
                      = fetched[k].desc \o ReadOriginal(fetched[k].link)

\* C8 witness: a finished run in which the request failed for an item that
\* had a description.
C8_Witness ==
    /\ pc = "done"
    /\ \E k \in failed : fetched[k].desc # <<>>

\* C9: every item of the final list has a non-empty guid, in either mode.
C9_GuidNonEmpty ==
    Fetched => \A k \in 1..Len(items) : items[k].guid # <<>>

\* C10: two items of the final list with distinct guids have distinct slugs,
\* each its own page, and distinct <guid> values in the feed.
C10_DistinctSlugs ==
    pc = "done" =>
        \A a, b \in 1..Len(items) :
            items[a].guid # items[b].guid =>
                /\ items[a].slug # items[b].slug
                /\ posts[items[a].slug].original_url = items[a].link
                /\ feed.items[a].guid # feed.items[b].guid

====
